---------------------------- MODULE Spec2Model ----------------------------
(***************************************************************************)
(* cargo-wizard, src/manifest.rs: parse_manifest, ParsedManifest::         *)
(* apply_profile and ParsedManifest::write over a toml_edit Document.      *)
(*                                                                         *)
(* A Document is its root table.  A table is an ordered sequence of        *)
(* key/value entries  [key, kdecor, item]  (toml_edit's TableKeyValue):    *)
(*   key     the key's name                                                *)
(*   kdecor  the decoration toml_edit attaches to the Key: what precedes   *)
(*           the key on its line and on the lines above it (blank lines,   *)
(*           comment lines) and the spacing before '='                     *)
(*   item    Item::Value         [kind, val, decor]   decor = the spacing  *)
(*                               after '=' and the trailing same-line      *)
(*                               comment                                   *)
(*           Item::Table         [kind, dotted, entries]                   *)
(*           Item::ArrayOfTables [kind]                                    *)
(* Table::iter yields (&str, &Item) pairs and Table::insert(&str, Item)    *)
(* builds a fresh Key, so an entry that goes through                       *)
(* iter/clear/insert keeps its item and loses its kdecor.                  *)
(*                                                                         *)
(* The file on disk is represented by the tree it parses to                *)
(* (str::parse::<Document> and Document::to_string are toml_edit's         *)
(* lossless pair); a decoration is represented by what it renders as.      *)
(***************************************************************************)
EXTENDS Integers, Sequences, FiniteSets, TLC

VARIABLES file, document, profiles, pc, before, name, template

vars == <<file, document, profiles, pc, before, name, template>>

(***************************************************************************)
(* Bounds of the model.                                                    *)
(***************************************************************************)
\* most keys a profile section of the initial manifest holds
MaxKeys == 2
\* most fields a template holds
MaxFields == 2

(***************************************************************************)
(* Items.                                                                  *)
(***************************************************************************)
DefaultDecor == "default"

\* a value of the given type and literal, with the given decoration
Formatted(ty, v, decor) == [val |-> [ty |-> ty, v |-> v], decor |-> decor]

\* toml_edit::value(v): Item::Value(v)
value(v) == [kind |-> "Value", val |-> v.val, decor |-> v.decor]

\* toml_edit::table(): Item::Table(Table::new()), empty and not dotted
table == [kind |-> "Table", dotted |-> FALSE, entries |-> <<>>]

ArrayOfTables == [kind |-> "ArrayOfTables"]

\* Item::as_table_mut is Some for Item::Table only (an inline table is a Value)
as_table_mut(item) == item.kind = "Table"

\* Item::as_value is Some for Item::Value only
as_value(item) == item.kind = "Value"

set_dotted_skip(t, yes) == t

\* Table::set_dotted
set_dotted(t, yes) == [t EXCEPT !.dotted = yes]

(***************************************************************************)
(* Tables as ordered maps (toml_edit::Table over an IndexMap).             *)
(***************************************************************************)
contains_key(entries, key) == \E i \in DOMAIN entries : entries[i].key = key

index_of(entries, key) == CHOOSE i \in DOMAIN entries : entries[i].key = key

get(entries, key) == entries[index_of(entries, key)].item

keys_of(entries) == [i \in DOMAIN entries |-> entries[i].key]

\* Table::insert(key, item): a fresh Key (default decoration); an existing
\* key keeps its position, a new one goes last
insert(entries, key, item) ==
    LET kv == [key |-> key, kdecor |-> DefaultDecor, item |-> item]
    IN  IF contains_key(entries, key)
        THEN [i \in DOMAIN entries |->
                 IF entries[i].key = key THEN kv ELSE entries[i]]
        ELSE Append(entries, kv)

\* assignment through the &mut Item that entry()/get_mut() hand out: the
\* item changes, the Key and the position stay
assign(entries, key, item) ==
    [i \in DOMAIN entries |->
        IF entries[i].key = key THEN [entries[i] EXCEPT !.item = item]
        ELSE entries[i]]

\* Table::entry(key).or_insert(table())
entry_or_insert_table(entries, key) ==
    IF contains_key(entries, key) THEN entries ELSE insert(entries, key, table)

(***************************************************************************)
(* Templates (crate::TomlProfileTemplate).                                 *)
(***************************************************************************)
\* BuiltinProfile -> name, the match of apply_profile
inherits_name(b) == IF b = "Dev" THEN "dev" ELSE "release"

\* TomlValue::to_toml_value: a value of the template's type and literal,
\* with default decoration
to_toml_value(val) == Formatted(val.ty, val.v, DefaultDecor)

is_builtin_only_dev(n) == n = "dev"

is_builtin_profile(n) == n \in {"dev", "release"}

(***************************************************************************)
(* apply_profile, step by step.                                            *)
(***************************************************************************)
RECURSIVE reinsert(_, _)
\* for (name, item) in items { profile_table.insert(&name, item) }
reinsert(entries, items) ==
    IF items = <<>> THEN entries
    ELSE reinsert(insert(entries, Head(items)[1], Head(items)[2]), Tail(items))

Reverse(s) == [i \in DOMAIN s |-> s[Len(s) + 1 - i]]

inherit_reversed(entries, base) ==
    LET items == [i \in DOMAIN entries |-> <<entries[i].key, entries[i].item>>]
        cleared == <<>>
        first == IF ~ \E i \in DOMAIN items : items[i][1] = "inherits"
                 THEN insert(cleared, "inherits",
                             value(Formatted("String", inherits_name(base), DefaultDecor)))
                 ELSE cleared
    IN  reinsert(first, Reverse(items))

inherit_last(entries, base) ==
    LET items == [i \in DOMAIN entries |-> <<entries[i].key, entries[i].item>>]
        rebuilt == reinsert(<<>>, items)
    IN  IF ~ \E i \in DOMAIN items : items[i][1] = "inherits"
        THEN insert(rebuilt, "inherits",
                    value(Formatted("String", inherits_name(base), DefaultDecor)))
        ELSE rebuilt

\* lines 45-61: collect (name, item) pairs, clear the table, insert
\* "inherits" unless a pair has that name, insert the pairs back
inherit(entries, base) ==
    LET items == [i \in DOMAIN entries |-> <<entries[i].key, entries[i].item>>]
        cleared == <<>>
        first == IF ~ \E i \in DOMAIN items : items[i][1] = "inherits"
                 THEN insert(cleared, "inherits",
                             value(Formatted("String", inherits_name(base), DefaultDecor)))
                 ELSE cleared
    IN  reinsert(first, items)

merge_field_values_only(entries, key, val) ==
    LET new_value == to_toml_value(val)
    IN  IF contains_key(entries, key)
        THEN IF as_value(get(entries, key))
             THEN assign(entries, key,
                         value([new_value EXCEPT !.decor = get(entries, key).decor]))
             ELSE entries
        ELSE insert(entries, key, value(new_value))

merge_field_no_decor(entries, key, val) ==
    LET new_value == to_toml_value(val)
    IN  IF contains_key(entries, key)
        THEN assign(entries, key, value(new_value))
        ELSE insert(entries, key, value(new_value))

\* lines 65-74, the body of the loop over the template's fields
merge_field(entries, key, val) ==
    LET new_value == to_toml_value(val)
    IN  IF contains_key(entries, key)
        THEN LET existing_item == get(entries, key)
                 decorated == IF as_value(existing_item)
                              THEN [new_value EXCEPT !.decor = existing_item.decor]
                              ELSE new_value
             IN  assign(entries, key, value(decorated))
        ELSE insert(entries, key, value(new_value))

RECURSIVE merge_fields_backwards(_, _)
merge_fields_backwards(entries, fields) ==
    IF fields = <<>> THEN entries
    ELSE merge_field(merge_fields_backwards(entries, Tail(fields)),
                     Head(fields).key, Head(fields).val)

RECURSIVE merge_fields(_, _)
\* for (key, val) in &template.template.fields
merge_fields(entries, fields) ==
    IF fields = <<>> THEN entries
    ELSE merge_fields(merge_field(entries, Head(fields).key, Head(fields).val),
                      Tail(fields))

\* lines 44-75 on the resolved profile table
fill_profile_table(entries, n, t) ==
    LET inherited == IF ~ is_builtin_profile(n)
                     THEN inherit(entries, t.inherits)
                     ELSE entries
    IN  merge_fields(inherited, t.fields)

resolve_profile_overwrite(entries, n) ==
    IF contains_key(entries, n) /\ as_table_mut(get(entries, n))
    THEN entries
    ELSE insert(entries, n, table)

\* lines 36-38: profiles_table.entry(name).or_insert(table())
resolve_profile(entries, n) == entry_or_insert_table(entries, n)

\* ParsedManifest::apply_profile on the document: [ok, document]
apply_profile(doc, n, t) ==
    LET root == entry_or_insert_table(doc.entries, "profile")
        profile_item == get(root, "profile")
    IN  IF ~ as_table_mut(profile_item)
        THEN [ok |-> FALSE, error |-> "profile", document |-> doc]
        ELSE
        LET profiles_table == set_dotted(profile_item, TRUE)
            children == resolve_profile(profiles_table.entries, n)
            profile_item2 == get(children, n)
        IN  IF ~ as_table_mut(profile_item2)
            THEN [ok |-> FALSE, error |-> "profile.name", document |-> doc]
            ELSE
            LET filled == [profile_item2 EXCEPT
                              !.entries = fill_profile_table(@, n, t)]
                done == [profiles_table EXCEPT
                            !.entries = assign(children, n, filled)]
            IN  [ok |-> TRUE, error |-> "none",
                 document |-> [doc EXCEPT !.entries = assign(root, "profile", done)]]

(***************************************************************************)
(* parse_manifest: the snapshot of the profiles.                           *)
(***************************************************************************)
\* Item::as_table_like: a table or an inline table
as_table_like(item) ==
    \/ item.kind = "Table"
    \/ item.kind = "Value" /\ item.val.ty = "InlineTable"

\* ParsedProfile.items: HashMap<String, Item> of the table's entries
profile_items(entries) ==
    [k \in {entries[i].key : i \in DOMAIN entries} |-> get(entries, k)]

\* lines 96-118
snapshot(doc) ==
    IF contains_key(doc.entries, "profile") /\ as_table_like(get(doc.entries, "profile"))
    THEN LET p == get(doc.entries, "profile")
             children == IF p.kind = "Table" THEN p.entries ELSE <<>>
             tables == {children[i].key : i \in {j \in DOMAIN children :
                                                   children[j].item.kind = "Table"}}
         IN  [k \in tables |-> [name |-> k, items |-> profile_items(get(children, k).entries)]]
    ELSE << >>

(***************************************************************************)
(* The manifests and templates the model runs on.                          *)
(***************************************************************************)
ProfileNames == {"dev", "release", "custom"}

TemplateKeys == {"debug", "lto", "panic"}

\* the value a template assigns to a key
TemplateVal(k) ==
    IF k = "debug" THEN [ty |-> "Integer", v |-> "0"]
    ELSE IF k = "lto" THEN [ty |-> "Boolean", v |-> "true"]
    ELSE [ty |-> "String", v |-> "abort"]

RECURSIVE FieldLists(_)
\* the field lists of at most n fields; a template names a key once and
\* carries its base in `inherits`, never as a field
FieldLists(n) ==
    IF n = 0 THEN {<<>>}
    ELSE LET shorter == FieldLists(n - 1)
         IN  shorter \cup
             {Append(p[1], [key |-> p[2], val |-> TemplateVal(p[2])]) :
                 p \in {q \in shorter \X TemplateKeys :
                          /\ Len(q[1]) = n - 1
                          /\ \A i \in DOMAIN q[1] : q[1][i].key # q[2]}}

Templates == [inherits : {"Dev", "Release"}, fields : FieldLists(MaxFields)]

\* the value a manifest of the model holds under a key of a profile section
ManifestVal(k) ==
    IF k = "inherits" THEN [ty |-> "String", v |-> "dev"]
    ELSE IF k = "debug" THEN [ty |-> "Integer", v |-> "1"]
    ELSE [ty |-> "String", v |-> "thin"]

\* a sub-section of a profile section, as [profile.dev.build-override]
SubSection ==
    [kind |-> "Table", dotted |-> FALSE,
     entries |-> <<[key |-> "opt-level", kdecor |-> DefaultDecor,
                    item |-> value(Formatted("Integer", "3", DefaultDecor))]>>]

\* the entries a profile section of the initial manifest may hold
SectionEntries ==
    {[key |-> k, kdecor |-> kd,
      item |-> value([val |-> ManifestVal(k), decor |-> d])] :
        k \in {"inherits", "debug", "lto"},
        kd \in {DefaultDecor, "blank line"},
        d \in {DefaultDecor, "comment"}}
    \cup {[key |-> k, kdecor |-> DefaultDecor, item |-> SubSection] :
            k \in {"debug", "lto"}}
    \cup {[key |-> "debug", kdecor |-> DefaultDecor, item |-> ArrayOfTables]}

RECURSIVE Sections(_)
\* the profile sections of at most n keys, each key once
Sections(n) ==
    IF n = 0 THEN {<<>>}
    ELSE LET shorter == Sections(n - 1)
         IN  shorter \cup
             {Append(p[1], p[2]) :
                 p \in {q \in shorter \X SectionEntries :
                          /\ Len(q[1]) = n - 1
                          /\ ~ contains_key(q[1], q[2].key)}}

Scalar == value(Formatted("Integer", "7", DefaultDecor))

InlineTable == value(Formatted("InlineTable", "{ debug = 1 }", DefaultDecor))

KeyValue(k, item) == [key |-> k, kdecor |-> DefaultDecor, item |-> item]

\* what the profile table holds besides the profile aimed at: nothing, or a
\* key of its own and another profile
OtherChildren ==
    {<<>>,
     <<KeyValue("note", Scalar),
       KeyValue("bench", [kind |-> "Table", dotted |-> FALSE,
                          entries |-> <<[key |-> "debug", kdecor |-> "blank line",
                                         item |-> value(Formatted("Integer", "2", "comment"))]>>])>>}

\* the item profile.<name> of the initial manifest, for the names it holds
ProfileChildren ==
    {<<>>} \cup
    {<<KeyValue(n, item)>> :
        n \in {"dev", "custom"},
        item \in {Scalar, InlineTable, ArrayOfTables} \cup
                 {[kind |-> "Table", dotted |-> FALSE, entries |-> e] :
                     e \in Sections(MaxKeys)}}

ProfileItems ==
    {Scalar, InlineTable, ArrayOfTables} \cup
    {[kind |-> "Table", dotted |-> d, entries |-> o \o c] :
        d \in BOOLEAN, o \in OtherChildren, c \in ProfileChildren}

Package ==
    KeyValue("package",
             [kind |-> "Table", dotted |-> FALSE,
              entries |-> <<KeyValue("name", value(Formatted("String", "foo", DefaultDecor)))>>])

\* the manifests on disk at the start
Manifests ==
    {[entries |-> <<Package>>]} \cup
    {[entries |-> <<Package, KeyValue("profile", p)>>] : p \in ProfileItems}

(***************************************************************************)
(* The program: parse_manifest, apply_profile, write.                      *)
(***************************************************************************)
\* a ParsedManifest that was moved out of, or never built
NoDocument == [moved |-> TRUE]

NoTemplate == [inherits |-> "Dev", fields |-> <<>>]

Init ==
    /\ file \in Manifests
    /\ document = NoDocument
    /\ profiles = << >>
    /\ pc = "start"
    /\ before = NoDocument
    /\ name = "none"
    /\ template = NoTemplate

\* parse_manifest(path)
ParseManifest ==
    /\ pc = "start"
    /\ document' = file
    /\ profiles' = snapshot(file)
    /\ pc' = "parsed"
    /\ UNCHANGED <<file, before, name, template>>

\* manifest.apply_profile(name, template): Ok(self) or Err, self consumed
ApplyProfile ==
    /\ pc = "parsed"
    /\ \E n \in ProfileNames, t \in Templates :
          LET r == apply_profile(document, n, t)
          IN  /\ before' = document
              /\ name' = n
              /\ template' = t
              /\ IF r.ok
                 THEN /\ document' = r.document
                      /\ profiles' = profiles
                      /\ pc' = "applied"
                 ELSE /\ document' = NoDocument
                      /\ profiles' = << >>
                      /\ pc' = "failed"
    /\ UNCHANGED file

\* manifest.write(path): self consumed, the file replaced
Write ==
    /\ pc \in {"applied", "reapplied"}
    /\ file' = document
    /\ document' = NoDocument
    /\ pc' = "written"
    /\ UNCHANGED <<profiles, before, name, template>>

\* the same command run on its own result: apply_profile(name, template)
\* on the manifest the first call returned
ApplyProfileAgain ==
    /\ pc = "applied"
    /\ LET r == apply_profile(document, name, template)
       IN  /\ before' = document
           /\ IF r.ok
              THEN /\ document' = r.document
                   /\ profiles' = profiles
                   /\ pc' = "reapplied"
              ELSE /\ document' = NoDocument
                   /\ profiles' = << >>
                   /\ pc' = "failed"
    /\ UNCHANGED <<file, name, template>>

Next == ParseManifest \/ ApplyProfile \/ ApplyProfileAgain \/ Write

Spec == Init /\ [][Next]_vars

(***************************************************************************)
(* Vocabulary of the properties.  `before` is the document apply_profile   *)
(* was called on, `document` the one it returned.                          *)
(***************************************************************************)
Applied == pc \in {"applied", "reapplied"}

Builtin(n) == n \in {"dev", "release"}

BaseName == IF template.inherits = "Dev" THEN "dev" ELSE "release"

Range(s) == {s[i] : i \in DOMAIN s}

HasProfileTable(doc) ==
    /\ doc # NoDocument
    /\ contains_key(doc.entries, "profile")
    /\ get(doc.entries, "profile").kind = "Table"

\* the entries of profile.<n>, none when there is no such section
SectionOf(doc, n) ==
    IF ~ HasProfileTable(doc) THEN <<>>
    ELSE LET p == get(doc.entries, "profile")
         IN  IF contains_key(p.entries, n) /\ get(p.entries, n).kind = "Table"
             THEN get(p.entries, n).entries
             ELSE <<>>

OldSection == SectionOf(before, name)

NewSection == SectionOf(document, name)

\* the keys of old appear in new in the order they have in old
KeysKept(old, new) ==
    SelectSeq(keys_of(new), LAMBDA k : contains_key(old, k)) = keys_of(old)

\* a section reduced to its keys and the contents of its values
Plain(entries) ==
    [i \in DOMAIN entries |->
        [key |-> entries[i].key,
         val |-> IF entries[i].item.kind = "Value" THEN entries[i].item.val
                 ELSE [ty |-> "Section", v |-> "none"]]]

\* an existing segment of the path profile.<n> is not a section
StructureBad(doc, n) ==
    /\ contains_key(doc.entries, "profile")
    /\ LET p == get(doc.entries, "profile")
       IN  \/ p.kind # "Table"
           \/ /\ contains_key(p.entries, n)
              /\ get(p.entries, n).kind # "Table"

(***************************************************************************)
(* C1: for a profile name other than "dev" and "release" whose section is  *)
(* absent or has no "inherits" key, a successful apply_profile leaves      *)
(* "inherits" as the first key of the section, a string equal to the       *)
(* template's base, and the keys that existed keep their relative order.   *)
(***************************************************************************)
C1_InheritsInsertedFirst ==
    (Applied /\ ~ Builtin(name) /\ ~ contains_key(OldSection, "inherits")) =>
        /\ NewSection # <<>>
        /\ NewSection[1].key = "inherits"
        /\ NewSection[1].item.kind = "Value"
        /\ NewSection[1].item.val = [ty |-> "String", v |-> BaseName]
        /\ KeysKept(OldSection, NewSection)

C1_Witness ==
    /\ pc = "applied"
    /\ name = "custom"
    /\ Len(OldSection) = 2
    /\ ~ contains_key(OldSection, "inherits")
    /\ template.inherits = "Release"
    /\ template.fields # <<>>
    /\ NewSection[1].key = "inherits"

(***************************************************************************)
(* C2: for a non-builtin profile name whose section already holds          *)
(* "inherits", apply_profile leaves that key's value, position and         *)
(* decoration unchanged.                                                   *)
(***************************************************************************)
C2_InheritsUntouched ==
    (Applied /\ ~ Builtin(name) /\ contains_key(OldSection, "inherits")) =>
        LET i == index_of(OldSection, "inherits")
        IN  /\ Len(NewSection) >= i
            /\ NewSection[i] = OldSection[i]

(***************************************************************************)
(* C3: applying a template to "dev" or "release" never inserts "inherits": *)
(* absent before apply_profile, absent after it.                           *)
(***************************************************************************)
C3_BuiltinImmunity ==
    (Applied /\ Builtin(name) /\ ~ contains_key(OldSection, "inherits")) =>
        ~ contains_key(NewSection, "inherits")

C3_Witness ==
    /\ pc = "applied"
    /\ name = "release"
    /\ template.inherits = "Dev"
    /\ Len(template.fields) = 2
    /\ Len(NewSection) = 2
    /\ ~ contains_key(NewSection, "inherits")

(***************************************************************************)
(* C4: when apply_profile overwrites the value of an existing key, the     *)
(* key's leading blank lines/whitespace and its trailing same-line comment *)
(* are what they were, for builtin and custom names alike; only the        *)
(* value's content changes.                                                *)
(***************************************************************************)
C4_DecorationKept ==
    Applied =>
        \A f \in Range(template.fields) :
            (contains_key(OldSection, f.key) /\ get(OldSection, f.key).kind = "Value") =>
                LET o == OldSection[index_of(OldSection, f.key)]
                    n == NewSection[index_of(NewSection, f.key)]
                IN  /\ n.kdecor = o.kdecor
                    /\ n.item.kind = "Value"
                    /\ n.item.decor = o.item.decor
                    /\ n.item.val = f.val

(***************************************************************************)
(* C5: non-destructive merge: every key of the section is still there      *)
(* after apply_profile; the keys absent from the template keep their item, *)
(* their decoration and their relative order; the only new key in front is *)
(* a newly created "inherits", the other new keys follow all old ones.     *)
(***************************************************************************)
C5_NonDestructive ==
    Applied =>
        /\ \A i \in DOMAIN OldSection : contains_key(NewSection, OldSection[i].key)
        /\ \A i \in DOMAIN OldSection :
              (\A f \in Range(template.fields) : f.key # OldSection[i].key) =>
                  \E j \in DOMAIN NewSection : NewSection[j] = OldSection[i]
        /\ KeysKept(OldSection, NewSection)
        /\ \A j \in DOMAIN NewSection :
              ~ contains_key(OldSection, NewSection[j].key) =>
                  \/ j = 1 /\ NewSection[j].key = "inherits" /\ ~ Builtin(name)
                  \/ \A i \in DOMAIN NewSection :
                        contains_key(OldSection, NewSection[i].key) => i < j

(***************************************************************************)
(* C6: apply_profile is idempotent: applying the same name and template to *)
(* the document a successful apply returned succeeds and returns that      *)
(* document.                                                               *)
(***************************************************************************)
C6_Idempotent ==
    [][(pc = "applied" /\ pc' # "written") =>
          (pc' = "reapplied" /\ document' = document)]_vars

C6_Witness ==
    /\ pc = "reapplied"
    /\ name = "custom"
    /\ Len(template.fields) = 2
    /\ document = before
    /\ document # file
    /\ Len(SectionOf(file, name)) = 2
    /\ Len(NewSection) > 2

(***************************************************************************)
(* C7: a document with no top-level "profile" item gets a dotted "profile" *)
(* section whose only sub-section is the requested profile, populated with *)
(* exactly the template's fields, in template order, with its values.      *)
(***************************************************************************)
CreatedProfile(expected) ==
    /\ HasProfileTable(document)
    /\ LET p == get(document.entries, "profile")
       IN  /\ p.dotted
           /\ Len(p.entries) = 1
           /\ p.entries[1].key = name
           /\ p.entries[1].item.kind = "Table"
           /\ Plain(p.entries[1].item.entries) = expected

C7_CreatedHoldsFieldsOnly ==
    (pc = "applied" /\ ~ contains_key(before.entries, "profile")) =>
        CreatedProfile(template.fields)

\* C7 as amended: for a name other than "dev" and "release" the created
\* profile holds "inherits", a string equal to the template's base, in
\* front of the template's fields
C7_CreatedHoldsInheritsAndFields ==
    (pc = "applied" /\ ~ contains_key(before.entries, "profile")) =>
        CreatedProfile(
            (IF Builtin(name) THEN <<>>
             ELSE <<[key |-> "inherits", val |-> [ty |-> "String", v |-> BaseName]]>>)
            \o template.fields)

C7_Witness ==
    /\ pc = "applied"
    /\ ~ contains_key(before.entries, "profile")
    /\ name = "custom"
    /\ Len(template.fields) = 2
    /\ Len(NewSection) = 3

(***************************************************************************)
(* C8: apply_profile fails whenever "profile" or profile.<name> exists and *)
(* is not a section; a failure returns no document, and the file keeps its *)
(* contents.                                                               *)
(***************************************************************************)
C8_StructureError ==
    /\ pc = "failed" =>
          /\ StructureBad(before, name)
          /\ document = NoDocument
          /\ file = before
    /\ pc \in {"applied", "reapplied", "written"} => ~ StructureBad(before, name)

C8_Witness ==
    /\ pc = "failed"
    /\ HasProfileTable(before)
    /\ get(get(before.entries, "profile").entries, name).kind = "Value"
    /\ template.fields # <<>>

(***************************************************************************)
(* C9: when a template key names an entry of the section that is not a     *)
(* Value (a sub-section, a collection of sections), the merge does not     *)
(* replace that entry with the template's value.                           *)
(***************************************************************************)
C9_NonValueNotReplaced ==
    Applied =>
        \A f \in Range(template.fields) :
            (contains_key(OldSection, f.key) /\ get(OldSection, f.key).kind # "Value") =>
                get(NewSection, f.key) = get(OldSection, f.key)

\* C9 as amended: the merge replaces such an entry, where it stands, with
\* the template's value in default decoration; only a Value hands its
\* decoration on
C9_NonValueReplaced ==
    Applied =>
        /\ KeysKept(OldSection, NewSection)
        /\ \A f \in Range(template.fields) :
              (contains_key(OldSection, f.key) /\ get(OldSection, f.key).kind # "Value") =>
                  get(NewSection, f.key) =
                      [kind |-> "Value", val |-> f.val, decor |-> "default"]

C9_Witness ==
    /\ pc = "applied"
    /\ Len(OldSection) = 2
    /\ OldSection[1].item.kind = "Table"
    /\ \E f \in Range(template.fields) : f.key = OldSection[1].key
    /\ NewSection[1].item.kind = "Value"

(***************************************************************************)
(* C10: apply_profile touches only profile.<name>: the other top-level     *)
(* items, the other entries of "profile" and the load-time snapshot are    *)
(* unchanged, and an existing "profile" section keeps its dotted mode.     *)
(***************************************************************************)
OthersUnchanged ==
    /\ \A i \in DOMAIN before.entries :
          /\ document.entries[i].key = before.entries[i].key
          /\ document.entries[i].kdecor = before.entries[i].kdecor
          /\ before.entries[i].key # "profile" =>
                document.entries[i] = before.entries[i]
    /\ \A i \in DOMAIN document.entries :
          i > Len(before.entries) =>
              /\ i = Len(before.entries) + 1
              /\ document.entries[i].key = "profile"
              /\ ~ contains_key(before.entries, "profile")
    /\ HasProfileTable(before) =>
          LET old == get(before.entries, "profile").entries
              new == get(document.entries, "profile").entries
          IN  /\ \A i \in DOMAIN old :
                    /\ new[i].key = old[i].key
                    /\ new[i].kdecor = old[i].kdecor
                    /\ old[i].key # name => new[i] = old[i]
              /\ \A i \in DOMAIN new :
                    i > Len(old) =>
                        /\ i = Len(old) + 1
                        /\ new[i].key = name
                        /\ ~ contains_key(old, name)
    /\ profiles = snapshot(file)

C10_OnlyProfileTouched ==
    pc = "applied" =>
        /\ OthersUnchanged
        /\ HasProfileTable(before) =>
              get(document.entries, "profile").dotted =
                  get(before.entries, "profile").dotted

\* C10 as amended: the "profile" section is marked dotted by every
\* successful apply, whatever its mode was
C10_OnlyProfileTouchedAndDotted ==
    pc = "applied" =>
        /\ OthersUnchanged
        /\ get(document.entries, "profile").dotted

C10_Witness ==
    /\ pc = "applied"
    /\ HasProfileTable(before)
    /\ ~ get(before.entries, "profile").dotted
    /\ contains_key(get(before.entries, "profile").entries, "bench")
    /\ contains_key(get(before.entries, "profile").entries, name)
    /\ "bench" \in DOMAIN profiles
    /\ document # before

=============================================================================
